---- MODULE Spec2Model ----
(***************************************************************************)
(* Model of MoveBinaryData.execute                                         *)
(* (packages/nodes-base/nodes/MoveBinaryData.node.ts).                     *)
(*                                                                         *)
(* A JavaScript string is a sequence of one-character strings.  A          *)
(* JavaScript value is a tagged record [t, v]:                             *)
(*   undefined        [t |-> "undefined", v |-> 0]                         *)
(*   string           [t |-> "string",    v |-> <<chars>>]                 *)
(*   number (n >= 0)  [t |-> "number",    v |-> n]                         *)
(*   plain object     [t |-> "object",    v |-> [keys -> values]]          *)
(* Objects reachable from an item are stored in `heap`; item.json and      *)
(* item.binary are heap addresses, so that `newItem.binary = item.binary`  *)
(* shares the object and a write through one reference is seen by all.     *)
(*                                                                         *)
(* Scope.  Values are JSON values built from objects, strings and          *)
(* non-negative integers; texts are ASCII, over the characters of `Ascii`. *)
(* Keys hold no dot and are no array index.  JSON.stringify writes the     *)
(* keys of an object in a fixed order instead of insertion order.  Node    *)
(* parameters are plain values, the same for every item of a batch.  The   *)
(* encodings are utf8 (the default) and hex.  One action is one iteration  *)
(* of the loop of execute; an exception ends the run in pc = "failed".     *)
(***************************************************************************)
EXTENDS Integers, Sequences, FiniteSets, TLC

(***************************************************************************)
(* Bounds of the model.                                                    *)
(***************************************************************************)
MaxItems == 2

(***************************************************************************)
(* JavaScript values.                                                      *)
(***************************************************************************)
Undefined == [t |-> "undefined", v |-> 0]
Str(s) == [t |-> "string", v |-> s]
Num(n) == [t |-> "number", v |-> n]
Obj(f) == [t |-> "object", v |-> f]
EmptyObject == Obj(<<>>)

IsObject(x) == x.t = "object"
IsString(x) == x.t = "string"

\* obj[key] of JavaScript: undefined when obj is no object or has no such key.
Prop(x, key) ==
    IF IsObject(x) /\ key \in DOMAIN x.v THEN x.v[key] ELSE Undefined

\* obj[key] = val
WithProp(x, key, val) ==
    Obj([k \in (DOMAIN x.v) \cup {key} |-> IF k = key THEN val ELSE x.v[k]])

\* delete obj[key]
WithoutProp(x, key) ==
    Obj([k \in (DOMAIN x.v) \ {key} |-> x.v[k]])

(***************************************************************************)
(* lodash get / set / unset on dot-separated paths.                        *)
(***************************************************************************)
RECURSIVE SplitDots(_, _, _)
SplitDots(s, i, cur) ==
    IF i > Len(s) THEN <<cur>>
    ELSE IF s[i] = "." THEN <<cur>> \o SplitDots(s, i + 1, <<>>)
    ELSE SplitDots(s, i + 1, Append(cur, s[i]))

\* castPath: the path string split at its dots, each segment a literal key.
castPath(path) == SplitDots(path, 1, <<>>)

RECURSIVE baseGet(_, _)
baseGet(x, segs) ==
    IF segs = <<>> THEN x
    ELSE IF ~IsObject(x) THEN Undefined
    ELSE baseGet(Prop(x, Head(segs)), Tail(segs))

get(x, path) == baseGet(x, castPath(path))

RECURSIVE baseSet(_, _, _)
baseSet(x, segs, val) ==
    IF Len(segs) = 1 THEN WithProp(x, segs[1], val)
    ELSE LET objValue == Prop(x, Head(segs))
             nested == IF IsObject(objValue) THEN objValue ELSE EmptyObject
         IN WithProp(x, Head(segs), baseSet(nested, Tail(segs), val))

\* set(object, path, value); a non-object target is returned unchanged.
set(x, path, val) ==
    IF ~IsObject(x) THEN x ELSE baseSet(x, castPath(path), val)

RECURSIVE baseUnset(_, _)
baseUnset(x, segs) ==
    IF ~IsObject(x) THEN x
    ELSE IF Len(segs) = 1 THEN WithoutProp(x, segs[1])
    ELSE IF Head(segs) \notin DOMAIN x.v THEN x
    ELSE WithProp(x, Head(segs), baseUnset(x.v[Head(segs)], Tail(segs)))

unset(x, path) == baseUnset(x, castPath(path))

(***************************************************************************)
(* JSON.stringify / JSON.parse over the values above.                      *)
(***************************************************************************)
DecimalDigits == <<"0", "1", "2", "3", "4", "5", "6", "7", "8", "9">>

IsDigit(c) == \E d \in 1..10 : DecimalDigits[d] = c
DigitValue(c) == (CHOOSE d \in 1..10 : DecimalDigits[d] = c) - 1

RECURSIVE NumberToString(_)
NumberToString(n) ==
    IF n < 10 THEN <<DecimalDigits[n + 1]>>
    ELSE NumberToString(n \div 10) \o <<DecimalDigits[(n % 10) + 1]>>

RECURSIVE Quote(_, _)
Quote(s, i) ==
    IF i > Len(s) THEN <<>>
    ELSE (IF s[i] = "\"" \/ s[i] = "\\" THEN <<"\\", s[i]>>
          ELSE IF s[i] = "BS" THEN <<"\\", "b">>
          ELSE <<s[i]>>) \o Quote(s, i + 1)

QuotedString(s) == <<"\"">> \o Quote(s, 1) \o <<"\"">>

RECURSIVE JSONstringify(_), StringifyMembers(_, _)
JSONstringify(x) ==
    CASE x.t = "string" -> QuotedString(x.v)
      [] x.t = "number" -> NumberToString(x.v)
      [] x.t = "object" -> <<"{">> \o StringifyMembers(x, DOMAIN x.v) \o <<"}">>

StringifyMembers(x, keys) ==
    IF keys = {} THEN <<>>
    ELSE LET k == CHOOSE kk \in keys : TRUE
             rest == keys \ {k}
         IN QuotedString(k) \o <<":">> \o JSONstringify(x.v[k])
            \o (IF rest = {} THEN <<>> ELSE <<",">> \o StringifyMembers(x, rest))

\* Parse results: [ok, val, next]; next is the index after the parsed text.
ParseError == [ok |-> FALSE, val |-> Undefined, next |-> 0]
Parsed(val, next) == [ok |-> TRUE, val |-> val, next |-> next]

RECURSIVE ParseString(_, _, _)
ParseString(s, i, acc) ==
    IF i > Len(s) THEN ParseError
    ELSE IF s[i] = "\"" THEN Parsed(acc, i + 1)
    ELSE IF s[i] = "\\" THEN
        IF i + 1 > Len(s) THEN ParseError
        ELSE IF s[i + 1] \in {"\"", "\\", "/"}
             THEN ParseString(s, i + 2, Append(acc, s[i + 1]))
        ELSE IF s[i + 1] = "b" THEN ParseString(s, i + 2, Append(acc, "BS"))
        ELSE ParseError
    ELSE ParseString(s, i + 1, Append(acc, s[i]))

RECURSIVE ParseDigits(_, _, _)
ParseDigits(s, i, acc) ==
    IF i <= Len(s) /\ IsDigit(s[i])
    THEN ParseDigits(s, i + 1, 10 * acc + DigitValue(s[i]))
    ELSE Parsed(Num(acc), i)

RECURSIVE ParseValue(_, _), ParseMembers(_, _, _)
ParseValue(s, i) ==
    IF i > Len(s) THEN ParseError
    ELSE IF s[i] = "{" THEN
        IF i + 1 <= Len(s) /\ s[i + 1] = "}" THEN Parsed(EmptyObject, i + 2)
        ELSE ParseMembers(s, i + 1, EmptyObject)
    ELSE IF s[i] = "\"" THEN
        LET r == ParseString(s, i + 1, <<>>)
        IN IF r.ok THEN Parsed(Str(r.val), r.next) ELSE ParseError
    ELSE IF s[i] = "0" THEN
        IF i + 1 <= Len(s) /\ IsDigit(s[i + 1]) THEN ParseError
        ELSE Parsed(Num(0), i + 1)
    ELSE IF IsDigit(s[i]) THEN ParseDigits(s, i, 0)
    ELSE ParseError

ParseMembers(s, i, acc) ==
    IF i > Len(s) \/ s[i] # "\"" THEN ParseError
    ELSE LET k == ParseString(s, i + 1, <<>>)
         IN IF ~k.ok \/ k.next > Len(s) \/ s[k.next] # ":" THEN ParseError
            ELSE LET m == ParseValue(s, k.next + 1)
                 IN IF ~m.ok \/ m.next > Len(s) THEN ParseError
                    ELSE IF s[m.next] = "}"
                         THEN Parsed(WithProp(acc, k.val, m.val), m.next + 1)
                    ELSE IF s[m.next] = ","
                         THEN ParseMembers(s, m.next + 1, WithProp(acc, k.val, m.val))
                    ELSE ParseError

\* JSON.parse(text): ok = FALSE stands for the SyntaxError it throws.
JSONparse(text) ==
    LET r == ParseValue(text, 1)
    IN IF r.ok /\ r.next = Len(text) + 1 THEN r ELSE ParseError

(***************************************************************************)
(* Buffer: utf8 and hex strings of bytes, and base64.                      *)
(***************************************************************************)
Ascii ==
    ("BS" :> 8) @@ ("\"" :> 34) @@ ("," :> 44) @@ ("/" :> 47) @@ ("1" :> 49)
    @@ ("2" :> 50) @@ (":" :> 58) @@ ("\\" :> 92) @@ ("a" :> 97) @@ ("b" :> 98)
    @@ ("{" :> 123) @@ ("}" :> 125)

Base64Alphabet ==
    << "A", "B", "C", "D", "E", "F", "G", "H", "I", "J", "K", "L", "M",
       "N", "O", "P", "Q", "R", "S", "T", "U", "V", "W", "X", "Y", "Z",
       "a", "b", "c", "d", "e", "f", "g", "h", "i", "j", "k", "l", "m",
       "n", "o", "p", "q", "r", "s", "t", "u", "v", "w", "x", "y", "z",
       "0", "1", "2", "3", "4", "5", "6", "7", "8", "9", "+", "/" >>

HexDigits ==
    << "0", "1", "2", "3", "4", "5", "6", "7", "8", "9",
       "a", "b", "c", "d", "e", "f" >>

\* Buffer.from(string): the utf8 bytes of the string.
BufferFromString(s) == [i \in 1..Len(s) |-> Ascii[s[i]]]

Utf8Char(b) == CHOOSE c \in DOMAIN Ascii : Ascii[c] = b

RECURSIVE HexString(_, _)
HexString(bytes, i) ==
    IF i > Len(bytes) THEN <<>>
    ELSE <<HexDigits[(bytes[i] \div 16) + 1], HexDigits[(bytes[i] % 16) + 1]>>
         \o HexString(bytes, i + 1)

\* buffer.toString(encoding)
BufferToString(bytes, encoding) ==
    IF encoding = "hex" THEN HexString(bytes, 1)
    ELSE [i \in 1..Len(bytes) |-> Utf8Char(bytes[i])]

RECURSIVE Base64Groups(_, _)
Base64Groups(b, i) ==
    IF i > Len(b) THEN <<>>
    ELSE LET n == Len(b) - i + 1
             b1 == b[i]
             b2 == IF n >= 2 THEN b[i + 1] ELSE 0
             b3 == IF n >= 3 THEN b[i + 2] ELSE 0
         IN << Base64Alphabet[(b1 \div 4) + 1],
               Base64Alphabet[((b1 % 4) * 16 + (b2 \div 16)) + 1],
               IF n >= 2 THEN Base64Alphabet[((b2 % 16) * 4 + (b3 \div 64)) + 1]
               ELSE "=",
               IF n >= 3 THEN Base64Alphabet[(b3 % 64) + 1] ELSE "=" >>
            \o Base64Groups(b, i + 3)

\* buffer.toString('base64')
BufferToBase64(bytes) == Base64Groups(bytes, 1)

Base64Index(c) == (CHOOSE k \in 1..64 : Base64Alphabet[k] = c) - 1
IsBase64Char(c) == \E k \in 1..64 : Base64Alphabet[k] = c

RECURSIVE UpToPadding(_, _)
UpToPadding(s, i) ==
    IF i > Len(s) \/ s[i] = "=" THEN <<>> ELSE <<s[i]>> \o UpToPadding(s, i + 1)

RECURSIVE Base64Bytes(_, _)
Base64Bytes(d, i) ==
    LET n == Len(d) - i + 1
    IN IF n <= 1 THEN <<>>
       ELSE LET s1 == Base64Index(d[i])
                s2 == Base64Index(d[i + 1])
                s3 == IF n >= 3 THEN Base64Index(d[i + 2]) ELSE 0
                s4 == IF n >= 4 THEN Base64Index(d[i + 3]) ELSE 0
            IN <<s1 * 4 + (s2 \div 16)>>
               \o (IF n >= 3 THEN <<(s2 % 16) * 16 + (s3 \div 4)>> ELSE <<>>)
               \o (IF n >= 4 THEN <<(s3 % 4) * 64 + s4>> ELSE <<>>)
               \o Base64Bytes(d, i + 4)

\* Buffer.from(string, 'base64')
BufferFromBase64(s) == Base64Bytes(SelectSeq(UpToPadding(s, 1), IsBase64Char), 1)

(***************************************************************************)
(* The inputs the model draws from.                                        *)
(***************************************************************************)
KeyA == <<"a">>
KeyB == <<"b">>
PathA == <<"a">>
PathAB == <<"a", ".", "b">>
DataKey == <<"d", "a", "t", "a">>
MimeTypeKey == <<"m", "i", "m", "e", "T", "y", "p", "e">>

ApplicationJson ==
    <<"a", "p", "p", "l", "i", "c", "a", "t", "i", "o", "n", "/", "j", "s", "o", "n">>
TextCsv == <<"t", "e", "x", "t", "/", "c", "s", "v">>

\* An IBinaryData entry holding the utf8 bytes of `text`.
Payload(text, mime) ==
    Obj((DataKey :> Str(BufferToBase64(BufferFromString(text))))
        @@ (MimeTypeKey :> Str(mime)))

TextObject == <<"{", "\"", "a", "\"", ":", "2", "}">>
TextNumber == <<"1", "2">>
TextString == <<"\"", "a", "\"">>
TextInvalid == <<"{", "\"", "a", "\"">>

JsonEmpty == EmptyObject
JsonFlat == Obj(KeyA :> Num(1))
JsonNested == Obj((KeyA :> Obj(KeyB :> Str(<<"a">>))) @@ (KeyB :> Num(2)))

BinaryOne == Obj(KeyA :> Payload(TextObject, ApplicationJson))
BinaryTwo ==
    Obj((KeyA :> Obj(KeyB :> Payload(TextString, ApplicationJson)))
        @@ (KeyB :> Payload(TextNumber, TextCsv)))
BinaryInvalid == Obj(KeyA :> Payload(TextInvalid, ApplicationJson))

\* The input items a batch is drawn from: [json, binary], binary possibly
\* undefined.
InputItems ==
    { [json |-> JsonEmpty, binary |-> Undefined],
      [json |-> JsonFlat, binary |-> BinaryOne],
      [json |-> JsonNested, binary |-> BinaryOne],
      [json |-> JsonNested, binary |-> BinaryTwo],
      [json |-> JsonFlat, binary |-> BinaryInvalid] }

Batches == UNION { [1..n -> InputItems] : n \in 0..MaxItems }

PathNames == {PathA, PathAB}

DefaultOptions ==
    [encoding |-> "", jsonParse |-> FALSE, keepSource |-> FALSE,
     mimeType |-> Undefined, useRawData |-> FALSE]

BinaryToJsonParams ==
    { [mode |-> "binaryToJson", setAllData |-> sa, convertAllData |-> TRUE,
       sourceKey |-> sk, destinationKey |-> dk,
       options |-> [DefaultOptions EXCEPT !.encoding = en, !.jsonParse = jp,
                                          !.keepSource = ks]] :
      sa \in BOOLEAN, sk \in PathNames, dk \in PathNames,
      en \in {"", "hex"}, jp \in BOOLEAN, ks \in BOOLEAN }

JsonToBinaryParams ==
    { [mode |-> "jsonToBinary", setAllData |-> TRUE, convertAllData |-> ca,
       sourceKey |-> sk, destinationKey |-> dk,
       options |-> [DefaultOptions EXCEPT !.useRawData = ur, !.keepSource = ks,
                                          !.mimeType = mt]] :
      ca \in BOOLEAN, sk \in PathNames, dk \in PathNames,
      ur \in BOOLEAN, ks \in BOOLEAN,
      mt \in {Undefined, Str(<<>>), Str(TextCsv)} }

UnknownModeParams ==
    { [mode |-> "binaryToText", setAllData |-> TRUE, convertAllData |-> TRUE,
       sourceKey |-> PathA, destinationKey |-> PathA, options |-> DefaultOptions] }

(***************************************************************************)
(* State.                                                                  *)
(***************************************************************************)
VARIABLES
    heap,        \* the objects items refer to: address -> value
    items,       \* this.getInputData(): <<[json, binary]>> of heap addresses
    params,      \* the node parameters read by this.getNodeParameter
    itemIndex,   \* the loop counter of execute, from 1
    returnData,  \* the items pushed so far; `index` records the input item
    pc,          \* "loop", "returned" or "failed" (execute threw)
    error,       \* the Error thrown, [name, message]
    input,       \* the heap as it was when execute was called
    previous     \* the executions of earlier nodes of the workflow

vars == <<heap, items, params, itemIndex, returnData, pc, error, input, previous>>

NoRef == 0
NoError == [name |-> "", message |-> <<>>]

\* The heap and items holding a batch of input values.
HeapOf(batch) ==
    [a \in 1..(2 * Len(batch)) |->
        IF a % 2 = 1 THEN batch[(a + 1) \div 2].json ELSE batch[a \div 2].binary]

ItemsOf(batch) ==
    [i \in 1..Len(batch) |->
        [json |-> 2 * i - 1,
         binary |-> IF batch[i].binary = Undefined THEN NoRef ELSE 2 * i]]

InitWith(batch, p) ==
    /\ heap = HeapOf(batch)
    /\ items = ItemsOf(batch)
    /\ params = p
    /\ itemIndex = 1
    /\ returnData = <<>>
    /\ pc = "loop"
    /\ error = NoError
    /\ input = HeapOf(batch)
    /\ previous = <<>>

Init ==
    \E batch \in Batches :
        \E p \in BinaryToJsonParams \cup JsonToBinaryParams \cup UnknownModeParams :
            InitWith(batch, p)

(***************************************************************************)
(* Node parameters (this.getNodeParameter).                                *)
(***************************************************************************)
mode == params.mode
options == params.options
setAllData == params.setAllData
convertAllData == params.convertAllData
sourceKey == params.sourceKey
destinationKey == params.destinationKey

\* (options.encoding as string) || 'utf8'
encoding == IF options.encoding = "" THEN "utf8" ELSE options.encoding
\* Mutant: the option is never seen.
keepSourceIgnored == FALSE

\* options.keepSource === true
keepSource == options.keepSource = TRUE

\* options.mimeType || 'application/json'
mimeType ==
    IF options.mimeType = Undefined \/ options.mimeType.v = <<>>
    THEN Str(ApplicationJson)
    ELSE options.mimeType

(***************************************************************************)
(* Steps of the loop body.                                                 *)
(***************************************************************************)
\* Mutant: an empty object counts as no data.
SourceMissingOrEmpty(value) == value = Undefined \/ value = EmptyObject

\* `if (value === undefined)`: no data found so skip
SourceMissing(value) == value = Undefined

\* JSON.parse(JSON.stringify(x)): the copy of an object
JsonCopy(x) == JSONparse(JSONstringify(x)).val

\* `continue`
Skip ==
    /\ itemIndex' = itemIndex + 1
    /\ UNCHANGED <<heap, items, params, returnData, pc, error, input, previous>>

\* An exception leaves execute: nothing is returned.
Throw(name, message) ==
    /\ pc' = "failed"
    /\ error' = [name |-> name, message |-> message]
    /\ UNCHANGED <<heap, items, params, itemIndex, returnData, input, previous>>

\* returnData.push(newItem), with the heap the iteration leaves behind
Push(h, jsonRef, binaryRef) ==
    /\ heap' = h
    /\ returnData' =
           Append(returnData,
                  [json |-> jsonRef, binary |-> binaryRef, index |-> itemIndex])
    /\ itemIndex' = itemIndex + 1
    /\ UNCHANGED <<items, params, pc, error, input, previous>>

\* get(item.binary, sourceKey)
BinaryValue(item) ==
    IF item.binary = NoRef THEN Undefined ELSE get(heap[item.binary], sourceKey)
\* Mutant: the existing json is not copied into newItem.json.
NewJsonFromBinaryNoCopy(itemJson, convertedValue) ==
    IF setAllData = TRUE
    THEN JSONparse(convertedValue)
    ELSE LET converted == IF options.jsonParse
                          THEN JSONparse(convertedValue)
                          ELSE Parsed(Str(convertedValue), 0)
         IN IF converted.ok
            THEN Parsed(set(EmptyObject, destinationKey, converted.val), 0)
            ELSE ParseError

\* Mutant: setAllData is not looked at.
NewJsonFromBinaryAlwaysMerged(itemJson, convertedValue) ==
    LET converted == JSONparse(convertedValue)
    IN IF converted.ok
       THEN Parsed(set(JsonCopy(itemJson), destinationKey, converted.val), 0)
       ELSE ParseError

\* binaryToJson: the value of newItem.json, [ok, val]; ok = FALSE when
\* JSON.parse throws.
NewJsonFromBinary(itemJson, convertedValue) ==
    IF setAllData = TRUE
    THEN JSONparse(convertedValue)
    ELSE LET copy == JsonCopy(itemJson)
             converted == IF options.jsonParse
                          THEN JSONparse(convertedValue)
                          ELSE Parsed(Str(convertedValue), 0)
         IN IF converted.ok
            THEN Parsed(set(copy, destinationKey, converted.val), 0)
            ELSE ParseError
\* Mutant: the source key is removed from the input's own binary object.
NewBinaryFromBinaryShared(h, item) ==
    IF keepSource
    THEN [heap |-> h, ref |-> item.binary]
    ELSE [heap |-> [h EXCEPT ![item.binary] = unset(h[item.binary], sourceKey)],
          ref |-> item.binary]

\* binaryToJson: newItem.binary, [heap, ref]: the input's object itself when
\* the source is kept, else a copy without the source key.
NewBinaryFromBinary(h, item) ==
    IF keepSource
    THEN [heap |-> h, ref |-> item.binary]
    ELSE LET h1 == Append(h, JsonCopy(h[item.binary]))
             ref == Len(h1)
         IN [heap |-> [h1 EXCEPT ![ref] = unset(h1[ref], sourceKey)], ref |-> ref]

ExecuteBinaryToJson ==
    /\ pc = "loop"
    /\ itemIndex <= Len(items)
    /\ mode = "binaryToJson"
    /\ LET item == items[itemIndex]
           value == BinaryValue(item)
           data == Prop(value, DataKey)
       IN IF SourceMissing(value) THEN Skip
          ELSE IF ~IsString(data)
          THEN Throw("TypeError", <<"first argument must be a string">>)
          ELSE LET convertedValue ==
                       BufferToString(BufferFromBase64(data.v), encoding)
                   json == NewJsonFromBinary(heap[item.json], convertedValue)
                   h1 == Append(heap, json.val)
                   bin == NewBinaryFromBinary(h1, item)
               IN IF ~json.ok
                  THEN Throw("SyntaxError", <<"Unexpected token in JSON">>)
                  ELSE Push(bin.heap, Len(h1), bin.ref)
\* Mutant: convertAllData is not looked at.
JsonValueAtSourceKey(item) == get(heap[item.json], sourceKey)

\* jsonToBinary: the value to convert
JsonValue(item) ==
    IF convertAllData = FALSE THEN get(heap[item.json], sourceKey)
    ELSE heap[item.json]
\* Mutant: the value is never stringified.
SerializedRaw(value) == value

\* jsonToBinary: `if (options.useRawData !== true) value = JSON.stringify(value)`
Serialized(value) ==
    IF options.useRawData # TRUE THEN Str(JSONstringify(value)) ELSE value
\* Mutant: the existing binary data is not copied.
InitialBinaryEmpty(h, item) == EmptyObject

\* jsonToBinary: the initial newItem.binary
InitialBinary(h, item) ==
    IF item.binary # NoRef THEN JsonCopy(h[item.binary]) ELSE EmptyObject

\* jsonToBinary: the entry written at destinationKey
ConvertedValue(text) ==
    Obj((DataKey :> Str(BufferToBase64(BufferFromString(text))))
        @@ (MimeTypeKey :> mimeType))

\* jsonToBinary: newItem.json, [heap, ref]
NewJsonFromJson(h, item) ==
    IF keepSource
    THEN [heap |-> h, ref |-> item.json]
    ELSE IF convertAllData = TRUE
    THEN [heap |-> Append(h, EmptyObject), ref |-> Len(h) + 1]
    ELSE LET h1 == Append(h, JsonCopy(h[item.json]))
             ref == Len(h1)
         IN [heap |-> [h1 EXCEPT ![ref] = unset(h1[ref], sourceKey)], ref |-> ref]

ExecuteJsonToBinary ==
    /\ pc = "loop"
    /\ itemIndex <= Len(items)
    /\ mode = "jsonToBinary"
    /\ LET item == items[itemIndex]
           value == JsonValue(item)
           text == Serialized(value)
       IN IF SourceMissing(value) THEN Skip
          ELSE IF ~IsString(text)
          THEN Throw("TypeError", <<"first argument must be a string">>)
          ELSE LET h1 == Append(heap, InitialBinary(heap, item))
                   binaryRef == Len(h1)
                   h2 == [h1 EXCEPT ![binaryRef] =
                              set(h1[binaryRef], destinationKey, ConvertedValue(text.v))]
                   json == NewJsonFromJson(h2, item)
               IN Push(json.heap, json.ref, binaryRef)

\* throw new Error(`The operation "${mode}" is not known!`)
ThrowUnknownMode ==
    /\ pc = "loop"
    /\ itemIndex <= Len(items)
    /\ mode \notin {"binaryToJson", "jsonToBinary"}
    /\ Throw("Error", <<"The operation \"", mode, "\" is not known!">>)

\* return [returnData]
Return ==
    /\ pc = "loop"
    /\ itemIndex > Len(items)
    /\ pc' = "returned"
    /\ UNCHANGED <<heap, items, params, itemIndex, returnData, error, input, previous>>

Next ==
    \/ ExecuteBinaryToJson
    \/ ExecuteJsonToBinary
    \/ ThrowUnknownMode
    \/ Return

Spec == Init /\ [][Next]_vars

(***************************************************************************)
(* Vocabulary of the properties.  Input values are read from `input`, the  *)
(* heap as it was when execute was called; output values from `heap`.      *)
(***************************************************************************)
Processed == 1..(itemIndex - 1)

InJson(i) == input[items[i].json]
InBinary(i) == IF items[i].binary = NoRef THEN Undefined ELSE input[items[i].binary]
OutJson(r) == heap[r.json]
OutBinary(r) == heap[r.binary]

Emitted == {returnData[k] : k \in 1..Len(returnData)}
EmittedIndexes == {r.index : r \in Emitted}

IsPrefix(p, q) == Len(p) <= Len(q) /\ SubSeq(q, 1, Len(p)) = p

KeysOf(x) == IF IsObject(x) THEN DOMAIN x.v ELSE {}

\* The key paths that lead to something in x, the empty path included.
RECURSIVE PathsOf(_)
PathsOf(x) ==
    {<<>>} \cup UNION {{<<k>> \o p : p \in PathsOf(x.v[k])} : k \in KeysOf(x)}

\* The paths at which two values and a location can differ: those of either
\* value and the prefixes of the location (everywhere else both are undefined).
ProbePaths(out, in, segs) ==
    PathsOf(out) \cup PathsOf(in) \cup {SubSeq(segs, 1, n) : n \in 0..Len(segs)}

\* `out` is `in` with the location `path` removed and nothing else changed.
RemovedExactly(out, in, path) ==
    LET segs == castPath(path)
    IN \A p \in ProbePaths(out, in, segs) :
        IF IsPrefix(segs, p) THEN baseGet(out, p) = Undefined
        ELSE IF IsPrefix(p, segs)
        THEN /\ IsObject(baseGet(out, p))
             /\ KeysOf(baseGet(out, p)) =
                    KeysOf(baseGet(in, p))
                    \ (IF Len(p) = Len(segs) - 1 THEN {segs[Len(segs)]} ELSE {})
        ELSE baseGet(out, p) = baseGet(in, p)

\* `out` is `in` with `val` written at `path` (intermediate objects created as
\* needed) and nothing else changed.
WrittenExactly(out, in, path, val) ==
    LET segs == castPath(path)
    IN \A p \in ProbePaths(out, in, segs) :
        IF p = segs THEN baseGet(out, p) = val
        ELSE IF IsPrefix(segs, p) THEN TRUE
        ELSE IF IsPrefix(p, segs)
        THEN /\ IsObject(baseGet(out, p))
             /\ KeysOf(baseGet(out, p)) =
                    KeysOf(baseGet(in, p)) \cup {segs[Len(p) + 1]}
        ELSE baseGet(out, p) = baseGet(in, p)

\* The text a binary entry holds, decoded as the options ask.
DecodedText(entry, opts) ==
    BufferToString(BufferFromBase64(Prop(entry, DataKey).v),
                   IF opts.encoding = "" THEN "utf8" ELSE opts.encoding)

\* The source value of input item i under parameters p.
SourceValue(i, p) ==
    IF p.mode = "binaryToJson" THEN get(InBinary(i), p.sourceKey)
    ELSE IF p.convertAllData THEN InJson(i)
    ELSE get(InJson(i), p.sourceKey)

SourcePresent(i) == SourceValue(i, params) # Undefined

RecognizedMode == params.mode \in {"binaryToJson", "jsonToBinary"}

(***************************************************************************)
(* C1.  In either recognized mode execute is a filter-map: the items       *)
(* emitted are, one each and in input order, exactly the processed input   *)
(* items whose source value is present; their number is the number of      *)
(* processed items minus the number lacking the source; and when execute   *)
(* returns, every input item has been processed.                           *)
(***************************************************************************)
C1_FilterMap ==
    RecognizedMode =>
        /\ \A k \in 1..Len(returnData) :
              /\ returnData[k].index \in Processed
              /\ SourcePresent(returnData[k].index)
        /\ \A i \in Processed :
              Cardinality({k \in 1..Len(returnData) : returnData[k].index = i})
                  = IF SourcePresent(i) THEN 1 ELSE 0
        /\ \A k1, k2 \in 1..Len(returnData) :
              k1 < k2 => returnData[k1].index < returnData[k2].index
        /\ Len(returnData) =
              Cardinality(Processed)
              - Cardinality({i \in Processed : ~SourcePresent(i)})
        /\ (pc = "returned" => Processed = 1..Len(items))

C1_Witness ==
    /\ pc = "returned"
    /\ RecognizedMode
    /\ Len(items) = 2
    /\ ~SourcePresent(1)
    /\ Len(returnData) = 1
    /\ returnData[1].index = 2

(***************************************************************************)
(* C2.  For every emitted item: with keepSource the source side still      *)
(* holds the source location with its original value; without it the       *)
(* source side is the input's with exactly the source location removed     *)
(* (the empty object in jsonToBinary with convertAllData).                 *)
(***************************************************************************)
C2_KeepSource ==
    RecognizedMode =>
        \A r \in Emitted :
            LET inSide == IF params.mode = "binaryToJson"
                          THEN InBinary(r.index) ELSE InJson(r.index)
                outSide == IF params.mode = "binaryToJson"
                           THEN OutBinary(r) ELSE OutJson(r)
                whole == params.mode = "jsonToBinary" /\ params.convertAllData
            IN IF params.options.keepSource
               THEN IF whole THEN outSide = inSide
                    ELSE /\ get(outSide, params.sourceKey) # Undefined
                         /\ get(outSide, params.sourceKey)
                                = get(inSide, params.sourceKey)
               ELSE IF whole THEN outSide = EmptyObject
                    ELSE RemovedExactly(outSide, inSide, params.sourceKey)

C2_Witness ==
    /\ pc = "returned"
    /\ params.mode = "jsonToBinary"
    /\ ~params.convertAllData
    /\ ~params.options.keepSource
    /\ params.sourceKey = PathAB
    /\ \E r \in Emitted : InJson(r.index) = JsonNested

(***************************************************************************)
(* C3.  binaryToJson with setAllData = false and keepSource = false: for   *)
(* every emitted item the output json is the input json with the decoded   *)
(* (and, with jsonParse, parsed) payload written at destinationKey and     *)
(* nothing else changed, and the output binary is the input binary minus   *)
(* the entry at sourceKey.                                                 *)
(***************************************************************************)
C3_MovePartial ==
    (/\ params.mode = "binaryToJson"
     /\ ~params.setAllData
     /\ ~params.options.keepSource) =>
        \A r \in Emitted :
            LET text == DecodedText(get(InBinary(r.index), params.sourceKey),
                                    params.options)
                expected == IF params.options.jsonParse
                            THEN JSONparse(text).val ELSE Str(text)
            IN /\ WrittenExactly(OutJson(r), InJson(r.index),
                                 params.destinationKey, expected)
               /\ RemovedExactly(OutBinary(r), InBinary(r.index), params.sourceKey)

C3_Witness ==
    /\ pc = "returned"
    /\ params.mode = "binaryToJson"
    /\ ~params.setAllData
    /\ ~params.options.keepSource
    /\ params.options.jsonParse
    /\ params.destinationKey = PathAB
    /\ \E r \in Emitted :
          /\ InJson(r.index) = JsonNested
          /\ InBinary(r.index) = BinaryTwo

(***************************************************************************)
(* C5.  execute never changes its input: every object that existed when    *)
(* execute was called holds, at every point (after a push, a skip, a       *)
(* throw or the return), the value it held then.                           *)
(***************************************************************************)
C5_InputUnchanged ==
    \A a \in DOMAIN input : heap[a] = input[a]

C5_Witness ==
    /\ pc = "returned"
    /\ params.options.keepSource
    /\ \E r \in Emitted :
          \/ (r.binary # NoRef /\ r.binary = items[r.index].binary)
          \/ r.json = items[r.index].json

(***************************************************************************)
(* C6.  With a mode that is neither binaryToJson nor jsonToBinary execute  *)
(* never returns: it fails with an error naming the mode, and emits        *)
(* nothing.                                                                *)
(***************************************************************************)
C6_UnknownModeFails ==
    ~RecognizedMode =>
        /\ pc # "returned"
        /\ returnData = <<>>
        /\ (pc = "failed" =>
               /\ error.name = "Error"
               /\ \E k \in 1..Len(error.message) : error.message[k] = params.mode)

(***************************************************************************)
(* C7.  binaryToJson with parsing requested: when the text of item i is    *)
(* not valid JSON the failure is an error and not a skip, and the other    *)
(* items of the batch that have valid source data are still converted.     *)
(***************************************************************************)
ParsingRequested ==
    /\ params.mode = "binaryToJson"
    /\ (params.setAllData \/ params.options.jsonParse)

\* Input item j has a payload at sourceKey whose text parses.
ValidSource(j) ==
    LET entry == get(InBinary(j), params.sourceKey)
    IN /\ IsString(Prop(entry, DataKey))
       /\ JSONparse(DecodedText(entry, params.options)).ok

C7_ParseFailureSparesSiblings ==
    (/\ ParsingRequested
     /\ pc = "failed"
     /\ error.name = "SyntaxError") =>
        /\ itemIndex \notin EmittedIndexes
        /\ \A j \in 1..Len(items) :
              (j # itemIndex /\ ValidSource(j)) => j \in EmittedIndexes

(***************************************************************************)
(* C8.  jsonToBinary: for every emitted item the output binary is the      *)
(* input binary (the empty object when there is none) with an entry        *)
(* {data, mimeType} written at destinationKey and nothing else changed;    *)
(* data is the base64 text of the utf8 bytes of the serialized source      *)
(* value (of the value itself with useRawData), and mimeType the           *)
(* configured one, or application/json when none (or the empty string) is  *)
(* configured.                                                             *)
(***************************************************************************)
C8_BinaryWritten ==
    params.mode = "jsonToBinary" =>
        \A r \in Emitted :
            LET inBinary == IF items[r.index].binary = NoRef
                            THEN EmptyObject ELSE InBinary(r.index)
                entry == get(OutBinary(r), params.destinationKey)
                data == Prop(entry, DataKey)
                value == SourceValue(r.index, params)
                decoded == BufferToString(BufferFromBase64(data.v), "utf8")
            IN /\ WrittenExactly(OutBinary(r), inBinary, params.destinationKey, entry)
               /\ KeysOf(entry) = {DataKey, MimeTypeKey}
               /\ IsString(data)
               /\ data.v = BufferToBase64(BufferFromBase64(data.v))
               /\ IF params.options.useRawData
                  THEN Str(decoded) = value
                  ELSE /\ JSONparse(decoded).ok
                       /\ JSONparse(decoded).val = value
               /\ Prop(entry, MimeTypeKey) =
                      IF params.options.mimeType \in {Undefined, Str(<<>>)}
                      THEN Str(ApplicationJson) ELSE params.options.mimeType

C8_Witness ==
    /\ pc = "returned"
    /\ params.mode = "jsonToBinary"
    /\ params.destinationKey = PathAB
    /\ params.options.mimeType = Str(TextCsv)
    /\ \E r \in Emitted : InBinary(r.index) = BinaryTwo

(***************************************************************************)
(* C9.  binaryToJson with setAllData: the output json of every emitted     *)
(* item is exactly the parsed payload, whatever the input json,            *)
(* destinationKey and jsonParse are; two items with the same payload get   *)
(* the same output json.                                                   *)
(***************************************************************************)
C9_SetAllData ==
    (params.mode = "binaryToJson" /\ params.setAllData) =>
        /\ \A r \in Emitted :
              LET text == DecodedText(get(InBinary(r.index), params.sourceKey),
                                      params.options)
              IN JSONparse(text).ok /\ OutJson(r) = JSONparse(text).val
        /\ \A r1, r2 \in Emitted :
              get(InBinary(r1.index), params.sourceKey)
                  = get(InBinary(r2.index), params.sourceKey)
              => OutJson(r1) = OutJson(r2)

C9_Witness ==
    /\ pc = "returned"
    /\ params.mode = "binaryToJson"
    /\ params.setAllData
    /\ params.destinationKey = PathAB
    /\ \E r1, r2 \in Emitted :
          /\ InJson(r1.index) # InJson(r2.index)
          /\ InBinary(r1.index) = InBinary(r2.index)
          /\ OutJson(r1) = Obj(KeyA :> Num(2))

(***************************************************************************)
(* C10.  jsonToBinary with convertAllData never skips an item, so the      *)
(* returned batch is as long as the input batch; an item is skipped in     *)
(* jsonToBinary only when convertAllData is false and the value at         *)
(* sourceKey is absent.                                                    *)
(***************************************************************************)
C10_ConvertAllNeverDrops ==
    params.mode = "jsonToBinary" =>
        /\ params.convertAllData =>
              /\ Processed \subseteq EmittedIndexes
              /\ (pc = "returned" => Len(returnData) = Len(items))
        /\ \A i \in Processed \ EmittedIndexes :
              /\ ~params.convertAllData
              /\ get(InJson(i), params.sourceKey) = Undefined

C10_Witness ==
    /\ pc = "returned"
    /\ params.mode = "jsonToBinary"
    /\ params.convertAllData
    /\ params.sourceKey = PathAB
    /\ Len(items) = 2
    /\ Len(returnData) = 2
    /\ \E i \in 1..2 : InJson(i) = JsonEmpty

(***************************************************************************)
(* Two nodes in a row: a jsonToBinary node moving the value at a source    *)
(* path to a binary path, followed by a binaryToJson node reading that     *)
(* binary path.  The second execute gets the items the first returned.     *)
(***************************************************************************)
RoundTripItems ==
    { [json |-> JsonEmpty, binary |-> Undefined],
      [json |-> JsonFlat, binary |-> BinaryOne],
      [json |-> JsonNested, binary |-> BinaryTwo] }

RoundTripBatches == UNION { [1..n -> RoundTripItems] : n \in 0..MaxItems }

InitRoundTrip ==
    \E batch \in RoundTripBatches :
        \E p \in JsonToBinaryParams :
            /\ ~p.convertAllData
            /\ p.options.mimeType = Undefined
            /\ InitWith(batch, p)

ExecuteNextNode ==
    /\ pc = "returned"
    /\ previous = <<>>
    /\ mode = "jsonToBinary"
    /\ \E p \in BinaryToJsonParams :
          /\ p.sourceKey = destinationKey
          /\ params' = p
    /\ items' = [k \in 1..Len(returnData) |->
                    [json |-> returnData[k].json, binary |-> returnData[k].binary]]
    /\ previous' = <<[params |-> params, items |-> items,
                      returnData |-> returnData, input |-> input]>>
    /\ input' = heap
    /\ itemIndex' = 1
    /\ returnData' = <<>>
    /\ pc' = "loop"
    /\ UNCHANGED <<heap, error>>

NextRoundTrip ==
    \/ ExecuteJsonToBinary
    \/ ExecuteBinaryToJson
    \/ Return
    \/ ExecuteNextNode

SpecRoundTrip == InitRoundTrip /\ [][NextRoundTrip]_vars

\* The configuration of the round trip: jsonToBinary with useRawData = false
\* and keepSource = true, then binaryToJson with setAllData = false,
\* jsonParse = true and keepSource = true.
RoundTripConfigured ==
    /\ previous # <<>>
    /\ ~previous[1].params.options.useRawData
    /\ previous[1].params.options.keepSource
    /\ ~params.setAllData
    /\ params.options.jsonParse
    /\ params.options.keepSource

\* Every item the first node emitted comes out of the second node, with the
\* value V it had at the source path now at the destination path.
RoundTripReproduces ==
    /\ pc # "failed"
    /\ (pc = "returned" =>
           /\ Len(returnData) = Len(previous[1].returnData)
           /\ \A r \in Emitted :
                 LET first == previous[1]
                     original == first.returnData[r.index].index
                     V == get(first.input[first.items[original].json],
                              first.params.sourceKey)
                 IN V # Undefined /\ get(OutJson(r), params.destinationKey) = V)

(***************************************************************************)
(* C4 as stated.  Round trip: jsonToBinary (useRawData = false,            *)
(* keepSource = true) to binary path K, then binaryToJson (setAllData =    *)
(* false, jsonParse = true, keepSource = true) from K to D, yields items   *)
(* whose json holds at D the value V the source path held.                 *)
(***************************************************************************)
C4_RoundTripAnyEncoding ==
    RoundTripConfigured => RoundTripReproduces

(***************************************************************************)
(* C4 as amended.  The same round trip with the encoding option of the     *)
(* binaryToJson node left at its default, utf8, yields items whose json    *)
(* holds at D the value V the source path held.                            *)
(***************************************************************************)
C4_RoundTripUtf8 ==
    (RoundTripConfigured /\ params.options.encoding = "") => RoundTripReproduces

C4_Witness ==
    /\ RoundTripConfigured
    /\ params.options.encoding = ""
    /\ pc = "returned"
    /\ previous[1].params.sourceKey = PathA
    /\ params.destinationKey = PathAB
    /\ \E r \in Emitted :
          get(OutJson(r), params.destinationKey) = Obj(KeyB :> Str(<<"a">>))

====
